---- MODULE Spec2Model ----
(***************************************************************************)
(* The PDF rendering routine of carsearch (server/pdf.ts, createPDF) with  *)
(* the storage records it reads (server/storage.ts) and the streaming      *)
(* document writer whose "data"/"end" events settle the returned promise.  *)
(* One render is one run of the state machine: the search record, the      *)
(* storage contents and the uploads directory are chosen in Init, the      *)
(* actions are the consecutive blocks of createPDF.                        *)
(***************************************************************************)
EXTENDS Integers, Sequences, FiniteSets, TLC

\* Largest length of search.images explored.
MaxImages == 6

\* null / undefined of a string-valued field; a key that is not present in a
\* Partial<Organization> patch.
NULL == "<null>"
ABSENT == "<absent>"

\* JavaScript truthiness of a string | null | undefined value, and `a || b`.
Truthy(v) == v # NULL /\ v # ""
OrElse(v, d) == IF Truthy(v) THEN v ELSE d

Min(a, b) == IF a < b THEN a ELSE b

(***************************************************************************)
(* Literals of pdf.ts                                                      *)
(***************************************************************************)
DefaultPrimaryColor == "#4a6da7"
DefaultTextColor == "#333333"
DefaultCompanyName == "CarSearch Pro"
DefaultContactInfo == "Tel: 020-123456 | info@carsearchpro.nl | www.carsearchpro.nl"
lightGray == "#f3f4f6"
mediumGray == "#e5e7eb"
darkGray == "#9ca3af"
HelveticaBold == "Helvetica-Bold"
Helvetica == "Helvetica"

imgWidth == 230
imgHeight == 160
margin == 15
TopMargin == 50
PageBottom == 750
\* A lower limit for the cursor before the gallery title.
TitleSpaceLimitLow == PageBottom - 250

TitleSpaceLimit == 650
col1X == 50
col2X == 300
GalleryCap == 4

StyleFields == {"pdfPrimaryColor", "pdfSecondaryColor", "pdfCompanyName", "pdfContactInfo"}
FontFields == {"pdfHeaderFont", "pdfBodyFont"}
OrgFields == {"logo"} \cup StyleFields \cup FontFields

(***************************************************************************)
(* Storage (MemStorage): users and organizations are maps keyed by id.     *)
(* Ids are counted from 1, so 0 stands for a null organizationId.          *)
(***************************************************************************)
UndefinedUser == [defined |-> FALSE, id |-> 0, organizationId |-> 0]
UndefinedOrganization ==
    [defined |-> FALSE, id |-> 0, logo |-> NULL,
     pdfPrimaryColor |-> NULL, pdfSecondaryColor |-> NULL,
     pdfCompanyName |-> NULL, pdfContactInfo |-> NULL,
     pdfHeaderFont |-> NULL, pdfBodyFont |-> NULL]

\* MemStorage.createOrganization: every pdf field falls back to its default.
CreateOrganization(id, orgData) ==
    [defined |-> TRUE, id |-> id,
     logo |-> OrElse(orgData.logo, NULL),
     pdfPrimaryColor |-> OrElse(orgData.pdfPrimaryColor, DefaultPrimaryColor),
     pdfSecondaryColor |-> OrElse(orgData.pdfSecondaryColor, DefaultTextColor),
     pdfCompanyName |-> OrElse(orgData.pdfCompanyName, DefaultCompanyName),
     pdfContactInfo |-> OrElse(orgData.pdfContactInfo, DefaultContactInfo),
     pdfHeaderFont |-> OrElse(orgData.pdfHeaderFont, HelveticaBold),
     pdfBodyFont |-> OrElse(orgData.pdfBodyFont, Helvetica)]

\* MemStorage.updateOrganization: {...existingOrg, ...orgData, id}; a key of
\* the patch overrides the stored value whatever it is (null and "" included).
UpdateOrganization(existingOrg, orgData) ==
    [f \in DOMAIN existingOrg |->
        IF f \in OrgFields /\ orgData[f] # ABSENT THEN orgData[f] ELSE existingOrg[f]]

\* Map.get: undefined for a missing key.
GetUserRec(us, id) == IF id \in DOMAIN us THEN us[id] ELSE UndefinedUser
GetOrganizationRec(os, id) == IF id \in DOMAIN os THEN os[id] ELSE UndefinedOrganization

(***************************************************************************)
(* Uploads directory: asset references are file names below uploads/.      *)
(***************************************************************************)
ImageNames == <<"img1.jpg", "img2.jpg", "img3.jpg", "img4.jpg",
                "img5.jpg", "img6.jpg", "img7.jpg", "img8.jpg">>
LogoOk == "logo.png"
LogoBad == "badlogo.png"
LogoGone == "gone.png"
ImagesOfLength(n) == [k \in 1..n |-> ImageNames[k]]
ImageFiles(n) == {ImageNames[k] : k \in 1..n}

VARIABLES
    users,          \* storage.users
    organizations,  \* storage.organizations
    uploads,        \* names of the files that exist in uploads/
    corrupt,        \* existing files whose decoding throws in doc.image
    search,         \* the argument of createPDF
    pc,             \* the block of createPDF that runs next
    user,           \* local: result of storage.getUser
    organization,   \* local: the organization record, or undefined
    style,          \* locals primaryColor, textColor, companyName, contactInfo
    doc,            \* the PDFDocument: text state, page count, primitives drawn
    y,              \* local cursor y
    col,            \* local column toggle of the gallery
    startY,         \* local row-top of the gallery
    i,              \* loop index of the gallery
    stream,         \* chunks the writer has pushed, not yet delivered
    buffers,        \* local buffers: chunks delivered by "data" events
    promise,        \* the promise returned by createPDF
    error,          \* the exception in flight to the catch block
    now,            \* the clock read by new Date()
    cur,            \* the createPDF call whose locals are the variables above
    started,        \* number of createPDF calls made so far
    parked,         \* the argument and locals of the call that is not running
    searches,       \* storage.searches
    handlers,       \* the route handlers in flight, one per request
    pdfCalls,       \* the searches createPDF was called for by the pdf route
    probed          \* the file paths createPDF tested or read for those calls

vars == <<users, organizations, uploads, corrupt, search, pc, user, organization,
          style, doc, y, col, startY, i, stream, buffers, promise, error,
          now, cur, started, parked, searches, handlers, pdfCalls, probed>>

\* What a step of one call leaves alone: the stores, its argument, the clock
\* and the other call.
stores == <<users, organizations, uploads, corrupt>>
routing == <<searches, handlers, pdfCalls, probed>>
inputs == <<stores, search, now, cur, started, parked, routing>>

\* fs.existsSync(path.join(uploads, ref)) and whether doc.image throws on it.
ExistsSync(ref) == ref \in uploads
ImageThrows(ref) == ref \in corrupt

NoError == [at |-> "none"]
NoDoc ==
    [created |-> FALSE, ended |-> FALSE, endEmitted |-> FALSE,
     title |-> <<>>, author |-> NULL, creationDate |-> 0,
     font |-> Helvetica, fillColor |-> "black", fontSize |-> 12,
     pages |-> 0, prims |-> <<>>]
PendingPromise == [state |-> "pending", buffer |-> <<>>, error |-> NoError]
NoStyle == [primaryColor |-> NULL, textColor |-> NULL, companyName |-> NULL,
            contactInfo |-> NULL]

(***************************************************************************)
(* The PDFDocument calls createPDF makes, as functions on the document.    *)
(***************************************************************************)
FillColor(d, c) == [d EXCEPT !.fillColor = c]
FontSize(d, s) == [d EXCEPT !.fontSize = s]
Font(d, f) == [d EXCEPT !.font = f]
Prim(d, op, arg, x, py, w, h, color) ==
    [op |-> op, arg |-> arg, x |-> x, y |-> py, w |-> w, h |-> h,
     font |-> d.font, size |-> d.fontSize, color |-> color, page |-> d.pages]
\* doc.text(t, x, y): a text run at explicit coordinates. Only the pages
\* createPDF adds itself are counted; the writer's own continuation of an
\* overflowing text block onto a new page is not part of this model.
Text(d, arg, x, py) ==
    [d EXCEPT !.prims = Append(@, Prim(d, "text", arg, x, py, 0, 0, d.fillColor))]
\* doc.rect(x, y, w, h).fillAndStroke(fill, stroke)
RectFillAndStroke(d, x, py, w, h, fill) ==
    [d EXCEPT !.fillColor = fill,
              !.prims = Append(@, Prim(d, "rect", <<>>, x, py, w, h, fill))]
\* doc.moveTo(x1, y).lineTo(x2, y).stroke(color)
Rule(d, py) ==
    [d EXCEPT !.prims = Append(@, Prim(d, "line", <<>>, 50, py, 495, 0, mediumGray))]
\* doc.image(path, x, y, {width, height, fit})
Image(d, ref, x, py, w, h) ==
    [d EXCEPT !.prims = Append(@, Prim(d, "image", <<ref>>, x, py, w, h, "none"))]
\* doc.addPage(): the finished page is flushed to the stream
AddPage(d) == [d EXCEPT !.pages = @ + 1]
PageChunk(n) == [kind |-> "page", n |-> n]
HeaderChunk == [kind |-> "header", n |-> 0]
TrailerChunk == [kind |-> "trailer", n |-> 0]

\* A bold label followed by a regular value on one row.
LabelValue(d, label, value, x, py) ==
    Text(Font(Text(Font(FontSize(d, 11), HelveticaBold), <<label>>, x, py),
              Helvetica), value, x + 100, py)

\* A section title in the primary color with the separator rule below it.
SectionTitle(d, title, py, primaryColor) ==
    Rule(Text(Font(FontSize(FillColor(d, primaryColor), 14), HelveticaBold),
              <<title>>, 50, py), py + 20)

(***************************************************************************)
(* Initial states: a render is about to start.                             *)
(***************************************************************************)
\* searchStatuses of the schema.
Statuses == {"active", "completed"}

\* Timestamps are days; date-fns format(date, "dd MMMM yyyy").
DateStrings == <<"01 January 2026", "02 January 2026", "03 January 2026",
                 "04 January 2026", "05 January 2026">>
FormatDate(t) == DateStrings[t]

\* Number.prototype.toLocaleString() for the prices explored.
Prices == {-500, 0, 950, 15000, 25000}
ToLocaleString(n) ==
    CASE n = -500 -> "-500"
      [] n = 0 -> "0"
      [] n = 950 -> "950"
      [] n = 15000 -> "15,000"
      [] n = 25000 -> "25,000"

\* A search record. images is null when imagesNull is set (the column is
\* nullable), else the list of references.
FullSearchRecord(n, notes, minPrice, maxPrice, status, createdAt, imagesNull) ==
    [id |-> 7, userId |-> 1, additionalRequirements |-> notes,
     images |-> ImagesOfLength(n), imagesNull |-> imagesNull,
     minPrice |-> minPrice, maxPrice |-> maxPrice, status |-> status,
     createdAt |-> createdAt]
SearchRecord(n, notes) == FullSearchRecord(n, notes, 15000, 25000, "active", 1, FALSE)

\* A gallery that is drawn for active searches only.
HasImagesWhenActive(s) == s.status = "active" /\ ~s.imagesNull /\ Len(s.images) > 0

\* search.images && search.images.length > 0
HasImages(s) == ~s.imagesNull /\ Len(s.images) > 0

CustomOrgData ==
    [logo |-> LogoOk, pdfPrimaryColor |-> "#112233", pdfSecondaryColor |-> "#445566",
     pdfCompanyName |-> "Auto Jansen", pdfContactInfo |-> "Tel: 030-7654321",
     pdfHeaderFont |-> "Times-Bold", pdfBodyFont |-> "Times-Roman"]
BareOrgData == [f \in OrgFields |-> NULL]

CustomValue(f) == CustomOrgData[f]

\* The patch of an update request: each key absent or set.
OrgPatch(lg, pcol, scol, name, contact, hfont, bfont) ==
    [logo |-> lg, pdfPrimaryColor |-> pcol, pdfSecondaryColor |-> scol,
     pdfCompanyName |-> name, pdfContactInfo |-> contact,
     pdfHeaderFont |-> hfont, pdfBodyFont |-> bfont]
PatchValues(f) == {ABSENT, NULL, "", CustomValue(f)}

Locals ==
    /\ pc = "getUser"
    /\ user = UndefinedUser
    /\ organization = UndefinedOrganization
    /\ style = NoStyle
    /\ doc = NoDoc
    /\ y = 0
    /\ col = 0
    /\ startY = 0
    /\ i = 0
    /\ stream = <<>>
    /\ buffers = <<>>
    /\ promise = PendingPromise
    /\ error = NoError

\* No second call has been made.
NotStarted ==
    [pc |-> "idle", search |-> SearchRecord(0, NULL), user |-> UndefinedUser,
     organization |-> UndefinedOrganization, style |-> NoStyle, doc |-> NoDoc,
     y |-> 0, col |-> 0, startY |-> 0, i |-> 0, stream |-> <<>>, buffers |-> <<>>,
     promise |-> PendingPromise, error |-> NoError]
\* The stored searches at the start: search 7 of user 1 with one image.
InitialSearches ==
    (7 :> FullSearchRecord(1, NULL, 15000, 25000, "active", 1, FALSE))

\* A handler slot that has not received its request.
NoRequest ==
    [pc |-> "idle", route |-> "get", user |-> 0, id |-> 0, status |-> "active",
     images |-> <<>>, isArray |-> TRUE, valid |-> TRUE, extra |-> FALSE,
     notes |-> NULL, file |-> "none", found |-> FALSE,
     snapshot |-> SearchRecord(0, NULL), existing |-> SearchRecord(0, NULL),
     response |-> 0, wrote |-> FALSE]

Slots == {1, 2}

\* No request to a search route has been received.
NoRequests ==
    /\ searches = InitialSearches
    /\ handlers = [h \in Slots |-> NoRequest]
    /\ pdfCalls = <<>>
    /\ probed = {}

OneCall ==
    /\ cur = 1
    /\ started = 1
    /\ parked = NotStarted
    /\ NoRequests

\* Gallery inputs: any number of image references, each missing, readable or
\* corrupt; notes absent, empty or present; the owner with or without an
\* organization.
InitGallery ==
    /\ now = 3
    /\ \E n \in 0..MaxImages :
         /\ \E notes \in {NULL, "", "Trekhaak gewenst"} : search = SearchRecord(n, notes)
         /\ \E ex \in SUBSET ImageFiles(n) :
              /\ uploads = ex \cup {LogoOk, LogoBad}
              /\ \E bad \in SUBSET ex : corrupt = bad \cup {LogoBad}
    /\ \E oid \in {0, 1} : users = (1 :> [defined |-> TRUE, id |-> 1, organizationId |-> oid])
    /\ organizations = (1 :> CreateOrganization(1, CustomOrgData))

\* Branding inputs: the owner's organization after any patch of its fields; no
\* user record; a user whose organization record is gone.
InitBranding ==
    /\ now = 3
    /\ search = SearchRecord(0, NULL)
    /\ uploads = {LogoOk, LogoBad}
    /\ corrupt = {LogoBad}
    /\ \/ /\ users = (1 :> [defined |-> TRUE, id |-> 1, organizationId |-> 1])
          /\ \E lg \in {ABSENT, "", LogoOk, LogoBad, LogoGone},
                pcol \in PatchValues("pdfPrimaryColor"),
                scol \in PatchValues("pdfSecondaryColor") \ {NULL},
                name \in PatchValues("pdfCompanyName"),
                contact \in PatchValues("pdfContactInfo") \ {NULL},
                hfont \in {ABSENT, CustomValue("pdfHeaderFont")},
                bfont \in {ABSENT, CustomValue("pdfBodyFont")} :
               organizations =
                   (1 :> UpdateOrganization(CreateOrganization(1, BareOrgData),
                            OrgPatch(lg, pcol, scol, name, contact, hfont, bfont)))
       \/ /\ users \in {<<>>, (1 :> [defined |-> TRUE, id |-> 1, organizationId |-> 1])}
          /\ organizations = <<>>

\* Notes that wrap over many lines of the 495 wide paragraph.
LongNotes == "Trekhaak, panoramadak, stoelverwarming, ... (veertig regels)"

\* Record inputs: any prices, status, creation day and render day; the images
\* list null, empty or of two readable files.
InitFields ==
    /\ now \in 2..3
    /\ \E n \in {0, 2}, isNull \in BOOLEAN, minPrice \in Prices, maxPrice \in Prices,
          status \in Statuses, createdAt \in 1..2,
          notes \in {NULL, "Trekhaak gewenst", LongNotes}, id \in {7, 8} :
         /\ isNull => n = 0
         /\ search = [FullSearchRecord(n, notes, minPrice, maxPrice, status, createdAt,
                                       isNull) EXCEPT !.id = id]
         /\ uploads = ImageFiles(n) \cup {LogoOk, LogoBad}
    /\ corrupt = {LogoBad}
    /\ users = (1 :> [defined |-> TRUE, id |-> 1, organizationId |-> 1])
    /\ organizations = (1 :> CreateOrganization(1, CustomOrgData))

Init == Locals /\ OneCall /\ (InitGallery \/ InitBranding \/ InitFields)

(***************************************************************************)
(* The promise: resolve and reject act only while it is pending.           *)
(***************************************************************************)
\* A resolution that hands over no bytes.
ResolveEmpty(p, pdfData) ==
    IF p.state = "pending"
    THEN [state |-> "resolved", buffer |-> <<>>, error |-> NoError]
    ELSE p

Resolve(p, pdfData) ==
    IF p.state = "pending"
    THEN [state |-> "resolved", buffer |-> pdfData, error |-> NoError]
    ELSE p
Reject(p, e) ==
    IF p.state = "pending"
    THEN [state |-> "rejected", buffer |-> <<>>, error |-> e]
    ELSE p

(***************************************************************************)
(* createPDF, block by block                                               *)
(***************************************************************************)
\* const user = await storage.getUser(search.userId)
GetUser ==
    /\ pc = "getUser"
    /\ user' = GetUserRec(users, search.userId)
    /\ pc' = "getOrg"
    /\ UNCHANGED <<inputs, organization, style, doc, y, col, startY, i, stream,
                   buffers, promise, error>>

\* The lookup of the organization is made only for a user that has one.
NeedsOrganization(u) == u.defined /\ u.organizationId # 0

\* if (user && user.organizationId) organization = await getOrganizationById(..)
GetOrganization ==
    /\ pc = "getOrg"
    /\ organization' = IF NeedsOrganization(user)
                       THEN GetOrganizationRec(organizations, user.organizationId)
                       ELSE organization
    /\ pc' = "newDoc"
    /\ UNCHANGED <<inputs, user, style, doc, y, col, startY, i, stream, buffers,
                   promise, error>>

\* The styling variables of a renderer that knows no organization.
ResolveStyleDefaults(org) ==
    [primaryColor |-> DefaultPrimaryColor, textColor |-> DefaultTextColor,
     companyName |-> DefaultCompanyName, contactInfo |-> DefaultContactInfo]

\* The styling variables: the organization's value, else the default.
ResolveStyle(org) ==
    [primaryColor |-> OrElse(org.pdfPrimaryColor, DefaultPrimaryColor),
     textColor |-> OrElse(org.pdfSecondaryColor, DefaultTextColor),
     companyName |-> OrElse(org.pdfCompanyName, DefaultCompanyName),
     contactInfo |-> OrElse(org.pdfContactInfo, DefaultContactInfo)]

\* The document info of a renderer that knows no organization.
DocumentInfoDefaultAuthor(s, org, clock) ==
    [title |-> <<"Zoekopdracht ", s.id>>, author |-> DefaultCompanyName,
     creationDate |-> clock]

\* info: { Title, Author } and doc.info.CreationDate = new Date()
DocumentInfo(s, org, clock) ==
    [title |-> <<"Zoekopdracht ", s.id>>,
     author |-> OrElse(org.pdfCompanyName, DefaultCompanyName),
     creationDate |-> clock]

\* The document right after construction: one page, the info set.
NewDoc(s, org, clock) ==
    LET info == DocumentInfo(s, org, clock)
    IN  [NoDoc EXCEPT !.created = TRUE, !.pages = 1, !.title = info.title,
                      !.author = info.author, !.creationDate = info.creationDate]

\* new PDFDocument({... info}), the data/end handlers, the styling variables
NewDocument ==
    /\ pc = "newDoc"
    /\ doc' = NewDoc(search, organization, now)
    /\ stream' = <<HeaderChunk>>
    /\ style' = ResolveStyle(organization)
    /\ pc' = "header"
    /\ UNCHANGED <<inputs, user, organization, y, col, startY, i, buffers,
                   promise, error>>

\* The header with the date of the render instead of the search's.
HeaderBandRenderDate(d, st, s) ==
    LET d1 == RectFillAndStroke(d, 50, 50, 495, 80, lightGray)
        d2 == Text(Font(FontSize(FillColor(d1, st.primaryColor), 24), HelveticaBold),
                   <<st.companyName>>, 180, 65)
        d3 == Text(Font(FontSize(FillColor(d2, st.textColor), 14), Helvetica),
                   <<"Zoekopdracht Rapport">>, 180, 95)
    IN  Text(FontSize(FillColor(d3, darkGray), 10), <<"Datum: ", FormatDate(now)>>, 380, 95)

HeaderBand(d, st, s) ==
    LET d1 == RectFillAndStroke(d, 50, 50, 495, 80, lightGray)
        d2 == Text(Font(FontSize(FillColor(d1, st.primaryColor), 24), HelveticaBold),
                   <<st.companyName>>, 180, 65)
        d3 == Text(Font(FontSize(FillColor(d2, st.textColor), 14), Helvetica),
                   <<"Zoekopdracht Rapport">>, 180, 95)
    IN  Text(FontSize(FillColor(d3, darkGray), 10),
             <<"Datum: ", FormatDate(s.createdAt)>>, 380, 95)

DrawHeader ==
    /\ pc = "header"
    /\ doc' = HeaderBand(doc, style, search)
    /\ pc' = "logo"
    /\ UNCHANGED <<inputs, user, organization, style, y, col, startY, i, stream,
                   buffers, promise, error>>

drawLogoPlaceholder(d, primaryColor) ==
    Text(Font(FontSize(FillColor(RectFillAndStroke(d, 60, 60, 100, 60, primaryColor),
                                 "white"), 16), HelveticaBold),
         <<"LOGO">>, 90, 80)

\* The logo branch without the else of the existence test.
LogoBoxNoElse(d, org, primaryColor) ==
    IF Truthy(org.logo)
    THEN IF ExistsSync(org.logo)
         THEN IF ~ImageThrows(org.logo)
              THEN Image(d, org.logo, 60, 60, 100, 60)
              ELSE drawLogoPlaceholder(d, primaryColor)
         ELSE d
    ELSE drawLogoPlaceholder(d, primaryColor)

\* The logo branch: the image when the organization has a logo whose file
\* exists and decodes, the placeholder in every other case.
LogoBox(d, org, primaryColor) ==
    IF Truthy(org.logo)
    THEN IF ExistsSync(org.logo)
         THEN IF ~ImageThrows(org.logo)
              THEN Image(d, org.logo, 60, 60, 100, 60)
              ELSE drawLogoPlaceholder(d, primaryColor)
         ELSE drawLogoPlaceholder(d, primaryColor)
    ELSE drawLogoPlaceholder(d, primaryColor)

DrawLogo ==
    /\ pc = "logo"
    /\ doc' = LogoBox(doc, organization, style.primaryColor)
    /\ pc' = "customer"
    /\ UNCHANGED <<inputs, user, organization, style, y, col, startY, i, stream,
                   buffers, promise, error>>

CustomerSection(d, st) ==
    LET d1 == FillColor(SectionTitle(d, "Klantgegevens", 160, st.primaryColor), st.textColor)
        d2 == LabelValue(d1, "Naam:", <<"customerFirstName", " ", "customerLastName">>, 50, 190)
        d3 == LabelValue(d2, "Email:", <<"customerEmail">>, 50, 210)
    IN  LabelValue(d3, "Telefoon:", <<"customerPhone">>, 50, 230)

DrawCustomer ==
    /\ pc = "customer"
    /\ doc' = CustomerSection(doc, style)
    /\ pc' = "car"
    /\ UNCHANGED <<inputs, user, organization, style, y, col, startY, i, stream,
                   buffers, promise, error>>

\* The two-column grid starts at y = 300 with rows 20 apart; the price row
\* is 40 below the last row.
GridTop == 300
PriceRowY == GridTop + 20 + 20 + 40

\* The price text with the two amounts put in order.
PriceTextOrdered(s) ==
    IF s.minPrice <= s.maxPrice
    THEN <<"€", ToLocaleString(s.minPrice), " - €", ToLocaleString(s.maxPrice)>>
    ELSE <<"€", ToLocaleString(s.maxPrice), " - €", ToLocaleString(s.minPrice)>>

\* `€${search.minPrice.toLocaleString()} - €${search.maxPrice.toLocaleString()}`
PriceText(s) ==
    <<"€", ToLocaleString(s.minPrice), " - €", ToLocaleString(s.maxPrice)>>

CarSection(d, st, s) ==
    LET d0 == FillColor(SectionTitle(d, "Auto Specificaties", 270, st.primaryColor), st.textColor)
        d1 == LabelValue(d0, "Merk & Model:", <<"carMake", " ", "carModel">>, col1X, GridTop)
        d2 == LabelValue(d1, "Type:", <<"carType">>, col1X, GridTop + 20)
        d3 == LabelValue(d2, "Bouwjaar:", <<"carYear">>, col1X, GridTop + 40)
        d4 == LabelValue(d3, "Kleur:", <<"carColor">>, col2X, GridTop)
        d5 == LabelValue(d4, "Transmissie:", <<"carTransmission">>, col2X, GridTop + 20)
        d6 == LabelValue(d5, "Brandstof:", <<"carFuel">>, col2X, GridTop + 40)
    IN  LabelValue(d6, "Prijsrange:", PriceText(s), col1X, PriceRowY)

DrawCarDetails ==
    /\ pc = "car"
    /\ doc' = CarSection(doc, style, search)
    /\ y' = PriceRowY
    /\ pc' = "notes"
    /\ UNCHANGED <<inputs, user, organization, style, col, startY, i, stream,
                   buffers, promise, error>>

\* The cursor advance of the notes block: 40 + 20 + 10 when notes are drawn.
NotesAdvanceAlways(notes) == 40 + 20 + 10
NotesAdvance(notes) == IF Truthy(notes) THEN 40 + 20 + 10 ELSE 0

\* A cursor that is moved below the wrapped paragraph.
CursorBelowParagraph(py, notes) ==
    py + NotesAdvance(notes) + (IF notes = LongNotes THEN 400 ELSE IF Truthy(notes) THEN 13 ELSE 0)

\* The cursor after the notes block: y is advanced by the three fixed steps
\* only; the text call's own cursor (doc.y) is not read back.
CursorAfterNotes(py, notes) == py + NotesAdvance(notes)

\* The notes section: title 40 below the price row, rule 20 below the title,
\* paragraph 10 below the rule. The cursor stops at the top of the paragraph.
NotesSection(d, st, notes, py) ==
    Text(Font(FontSize(FillColor(SectionTitle(d, "Aanvullende eisen", py + 40, st.primaryColor),
                                 st.textColor), 11), Helvetica),
         <<notes>>, 50, py + 40 + 20 + 10)

\* if (search.additionalRequirements) { ... }
DrawNotes ==
    /\ pc = "notes"
    /\ IF Truthy(search.additionalRequirements)
       THEN /\ doc' = NotesSection(doc, style, search.additionalRequirements, y)
       ELSE UNCHANGED doc
    /\ y' = CursorAfterNotes(y, search.additionalRequirements)
    /\ pc' = "gallery"
    /\ UNCHANGED <<inputs, user, organization, style, col, startY, i, stream,
                   buffers, promise, error>>

\* if (search.images && search.images.length > 0): the cursor moves 60 down,
\* a page is added when it is beyond 650, then title, rule, and the first
\* row-top 40 below the title.
GalleryStart ==
    /\ pc = "gallery"
    /\ IF HasImages(search)
       THEN LET newPage == y + 60 > TitleSpaceLimit
                titleY == IF newPage THEN TopMargin ELSE y + 60
                d0 == IF newPage THEN AddPage(doc) ELSE doc
            IN  /\ doc' = SectionTitle(d0, "Auto Afbeeldingen", titleY, style.primaryColor)
                /\ stream' = IF newPage THEN Append(stream, PageChunk(doc.pages)) ELSE stream
                /\ y' = titleY + 20 + 20
                /\ col' = 0
                /\ startY' = titleY + 20 + 20
                /\ i' = 0
                /\ pc' = "galleryLoop"
       ELSE /\ pc' = "footer"
            /\ UNCHANGED <<doc, stream, y, col, startY, i>>
    /\ UNCHANGED <<inputs, user, organization, style, buffers, promise, error>>

\* x of a gallery column
\* The columns set side by side without the margin.
ColumnXNoMargin(c) == IF c = 0 THEN 50 ELSE 50 + imgWidth

ColumnX(c) == IF c = 0 THEN 50 ELSE 50 + imgWidth + margin

\* The catch block of a gallery image: the light-gray box and its label.
ImagePlaceholder(d, x, py) ==
    Text(FontSize(FillColor(RectFillAndStroke(d, x, py, imgWidth, imgHeight, lightGray),
                            darkGray), 12),
         <<"Afbeelding niet beschikbaar">>, x + 50, py + (imgHeight \div 2) - 6)

\* The image call with a catch block that draws nothing.
DrawImageNoFallback(d, ref, x, py) ==
    IF ~ImageThrows(ref) THEN Image(d, ref, x, py, imgWidth, imgHeight) ELSE d

\* try { doc.image(...) } catch { placeholder }
DrawImage(d, ref, x, py) ==
    IF ~ImageThrows(ref)
    THEN Image(d, ref, x, py, imgWidth, imgHeight)
    ELSE ImagePlaceholder(d, x, py)

\* A page-break test that holds after every row.
NeedNewPageEveryRow(k, n, rowTop) == TRUE

\* The page-break test made after a row is completed at loop index k.
NeedNewPage(k, n, rowTop) == k < n - 2 /\ rowTop + imgHeight > PageBottom

\* Whether the loop body handles entry ref at all.
Handled(ref) == ExistsSync(ref)

\* The row advance with the page-break test made after every image.
AdvanceBreakAnywhere(c, rowTop, k, n) ==
    IF NeedNewPage(k, n, rowTop + imgHeight + margin)
    THEN [col |-> 1 - c, startY |-> TopMargin, newPage |-> TRUE]
    ELSE [col |-> 1 - c,
          startY |-> IF c = 0 THEN rowTop ELSE rowTop + imgHeight + margin,
          newPage |-> FALSE]

\* Switch to next column or row: after a column-0 image the toggle moves to
\* column 1 on the same row; after a column-1 image the row-top advances and
\* the page-break test is made.
Advance(c, rowTop, k, n) ==
    IF c = 0
    THEN [col |-> 1, startY |-> rowTop, newPage |-> FALSE]
    ELSE IF NeedNewPage(k, n, rowTop + imgHeight + margin)
         THEN [col |-> 0, startY |-> TopMargin, newPage |-> TRUE]
         ELSE [col |-> 0, startY |-> rowTop + imgHeight + margin, newPage |-> FALSE]

\* The loop bound without the cap.
LoopBoundUncapped(n) == n

\* Math.min(search.images.length, 4)
LoopBound(n) == Min(n, GalleryCap)

\* The list read from its end.
EntryAtReversed(s, k) == s.images[Len(s.images) - k]

\* search.images[i], the loop index counted from 0
EntryAt(s, k) == s.images[k + 1]

\* One iteration of for (i = 0; i < Math.min(images.length, 4); i++)
GalleryImage ==
    /\ pc = "galleryLoop"
    /\ i < LoopBound(Len(search.images))
    /\ LET ref == EntryAt(search, i)
           drawn == DrawImage(doc, ref, ColumnX(col), startY)
           adv == Advance(col, startY, i, Len(search.images))
       IN  IF Handled(ref)
           THEN /\ doc' = IF adv.newPage THEN AddPage(drawn) ELSE drawn
                /\ stream' = IF adv.newPage THEN Append(stream, PageChunk(doc.pages))
                             ELSE stream
                /\ col' = adv.col
                /\ startY' = adv.startY
           ELSE UNCHANGED <<doc, col, startY, stream>>
    /\ i' = i + 1
    /\ UNCHANGED <<inputs, pc, user, organization, style, y, buffers, promise, error>>

\* Loop exit: y = startY + imgHeight + 20
GalleryEnd ==
    /\ pc = "galleryLoop"
    /\ i >= LoopBound(Len(search.images))
    /\ y' = startY + imgHeight + 20
    /\ pc' = "footer"
    /\ UNCHANGED <<inputs, user, organization, style, doc, col, startY, i, stream,
                   buffers, promise, error>>

FooterY == 750

\* The footer stamped on the first page whatever the current page is.
FooterOnFirstPage(d, st) ==
    LET d1 == [d EXCEPT !.pages = 1]
        d2 == Text(FontSize(Text(FillColor(FontSize(d1, 9), darkGray),
                        <<st.companyName, " - Uw specialist in auto zoekopdrachten">>,
                        50, FooterY), 8),
                   <<st.contactInfo>>, 50, FooterY + 15)
    IN  [d2 EXCEPT !.pages = d.pages]

Footer(d, st) ==
    Text(FontSize(Text(FillColor(FontSize(d, 9), darkGray),
                       <<st.companyName, " - Uw specialist in auto zoekopdrachten">>,
                       50, FooterY), 8),
         <<st.contactInfo>>, 50, FooterY + 15)

\* A footer that looks the organization up again when it is drawn.
DrawFooterLive ==
    /\ pc = "footer"
    /\ doc' = Footer(doc, ResolveStyle(GetOrganizationRec(organizations, user.organizationId)))
    /\ pc' = "end"
    /\ UNCHANGED <<inputs, user, organization, style, y, col, startY, i, stream,
                   buffers, promise, error>>

DrawFooter ==
    /\ pc = "footer"
    /\ doc' = Footer(doc, style)
    /\ pc' = "end"
    /\ UNCHANGED <<inputs, user, organization, style, y, col, startY, i, stream,
                   buffers, promise, error>>

\* doc.end(): the last page and the trailer are written and the stream is
\* closed; the "end" event follows once every chunk has been delivered.
DocEnd ==
    /\ pc = "end"
    /\ doc' = [doc EXCEPT !.ended = TRUE]
    /\ stream' = stream \o <<PageChunk(doc.pages), TrailerChunk>>
    /\ pc' = "done"
    /\ UNCHANGED <<inputs, user, organization, style, y, col, startY, i, buffers,
                   promise, error>>

\* The blocks inside try { } whose failure is not caught per asset.
TryBlocks == {"getUser", "getOrg", "newDoc", "header", "logo", "customer", "car",
              "notes", "gallery", "galleryLoop", "footer", "end"}

\* A block fails: a storage lookup rejects, the writer cannot be constructed,
\* a drawing call or doc.end() throws. Control passes to the catch block.
Throw ==
    /\ pc \in TryBlocks
    /\ pc = "getOrg" => NeedsOrganization(user)
    /\ error' = [at |-> pc]
    /\ pc' = "catch"
    /\ UNCHANGED <<inputs, user, organization, style, doc, y, col, startY, i,
                   stream, buffers, promise>>

\* A catch block that swallows the error.
CatchSwallow ==
    /\ pc = "catch"
    /\ pc' = "done"
    /\ UNCHANGED <<inputs, user, organization, style, doc, y, col, startY, i,
                   stream, buffers, promise, error>>

\* catch (error) { reject(error) }
Catch ==
    /\ pc = "catch"
    /\ promise' = Reject(promise, error)
    /\ pc' = "done"
    /\ UNCHANGED <<inputs, user, organization, style, doc, y, col, startY, i,
                   stream, buffers, error>>

\* A data handler that puts each chunk in front of the ones collected.
OnDataUnshift ==
    /\ pc = "done"
    /\ doc.created
    /\ stream # <<>>
    /\ buffers' = <<Head(stream)>> \o buffers
    /\ stream' = Tail(stream)
    /\ UNCHANGED <<inputs, pc, user, organization, style, doc, y, col, startY, i,
                   promise, error>>

\* doc.on("data", buffers.push.bind(buffers)). createPDF has no await after
\* the document is constructed, so the chunks pushed meanwhile are delivered
\* once its body has run to completion (or has thrown).
OnData ==
    /\ pc = "done"
    /\ doc.created
    /\ stream # <<>>
    /\ buffers' = Append(buffers, Head(stream))
    /\ stream' = Tail(stream)
    /\ UNCHANGED <<inputs, pc, user, organization, style, doc, y, col, startY, i,
                   promise, error>>

\* doc.on("end", () => resolve(Buffer.concat(buffers)))
OnEnd ==
    /\ pc = "done"
    /\ doc.ended
    /\ ~doc.endEmitted
    /\ stream = <<>>
    /\ doc' = [doc EXCEPT !.endEmitted = TRUE]
    /\ promise' = Resolve(promise, buffers)
    /\ UNCHANGED <<inputs, pc, user, organization, style, y, col, startY, i,
                   stream, buffers, error>>

Next ==
    \/ GetUser
    \/ GetOrganization
    \/ NewDocument
    \/ DrawHeader
    \/ DrawLogo
    \/ DrawCustomer
    \/ DrawCarDetails
    \/ DrawNotes
    \/ GalleryStart
    \/ GalleryImage
    \/ GalleryEnd
    \/ DrawFooter
    \/ DocEnd
    \/ Throw
    \/ Catch
    \/ OnData
    \/ OnEnd

Spec == Init /\ [][Next]_vars

(***************************************************************************)
(* Two requests. The route handler calls createPDF for every GET           *)
(* /api/searches/:id/pdf; a call runs until its next await, and the event  *)
(* loop then runs whichever call has a continuation or a stream event due. *)
(* The variables hold the locals of the running call, parked those of the  *)
(* other one.                                                              *)
(***************************************************************************)
\* The closure of the running call.
Running ==
    [pc |-> pc, search |-> search, user |-> user, organization |-> organization,
     style |-> style, doc |-> doc, y |-> y, col |-> col, startY |-> startY, i |-> i,
     stream |-> stream, buffers |-> buffers, promise |-> promise, error |-> error]

\* The closure of a call that has just been made for search s.
Fresh(s) == [NotStarted EXCEPT !.pc = "getUser", !.search = s]

\* A call is suspended at its two awaits and after its body has returned.
Suspended(c) ==
    \/ c.pc = "getUser"
    \/ c.pc = "getOrg" /\ NeedsOrganization(c.user)
    \/ c.pc = "done"

\* A call has a continuation or a stream event left to run.
HasWork(c) ==
    \/ c.pc \notin {"idle", "done"}
    \/ c.stream # <<>>
    \/ c.doc.ended /\ ~c.doc.endEmitted

\* A renderer whose chunk list is shared by all calls.
SharedBuffers(saved, running) == [saved EXCEPT !.buffers = running.buffers]

\* What a call finds when it resumes: doc, buffers, y, col and startY are
\* declared inside the promise executor, so every call has its own.
OwnLocals(saved, running) == saved

Load(c) ==
    /\ pc' = c.pc
    /\ search' = c.search
    /\ user' = c.user
    /\ organization' = c.organization
    /\ style' = c.style
    /\ doc' = c.doc
    /\ y' = c.y
    /\ col' = c.col
    /\ startY' = c.startY
    /\ i' = c.i
    /\ stream' = c.stream
    /\ buffers' = c.buffers
    /\ promise' = c.promise
    /\ error' = c.error

\* A search of another user: other id, notes, prices, status and images.
OtherSearch ==
    [FullSearchRecord(1, "", 950, 15000, "completed", 2, FALSE)
        EXCEPT !.id = 9, !.userId = 2]

OtherStatus(st) == CHOOSE t \in Statuses : t # st

\* The searches a second request may ask for: the same record, the same
\* record with the other status, another record.
SecondSearches(s) == {s, [s EXCEPT !.status = OtherStatus(s.status)], OtherSearch}

\* A second request arrives while the first call is suspended or finished;
\* the clock may have moved on.
StartSecond ==
    /\ started = 1
    /\ Suspended(Running)
    /\ \E s \in SecondSearches(search), t \in {now, now + 1} :
          /\ now' = t
          /\ Load(OwnLocals(Fresh(s), Running))
    /\ parked' = Running
    /\ cur' = 2
    /\ started' = 2
    /\ UNCHANGED <<stores, routing>>

\* The running call is suspended and the event loop resumes the other one.
Switch ==
    /\ started = 2
    /\ Suspended(Running)
    /\ HasWork(parked)
    /\ Load(OwnLocals(parked, Running))
    /\ parked' = Running
    /\ cur' = 3 - cur
    /\ UNCHANGED <<stores, now, started, routing>>

\* Two users, the first in an organization; three or four images of which
\* one may be missing and one unreadable, or none.
InitCalls ==
    /\ Locals
    /\ OneCall
    /\ now = 2
    /\ \E n \in {0, 3, 4}, notes \in {NULL, "Trekhaak gewenst"},
          gone \in SUBSET {"img3.jpg"}, bad \in SUBSET {"img2.jpg"} :
         /\ search = FullSearchRecord(n, notes, 15000, 25000, "active", 1, FALSE)
         /\ uploads = (ImageFiles(4) \ gone) \cup {LogoOk}
         /\ corrupt = bad
    /\ users = (1 :> [defined |-> TRUE, id |-> 1, organizationId |-> 1]
                @@ 2 :> [defined |-> TRUE, id |-> 2, organizationId |-> 0])
    /\ organizations = (1 :> CreateOrganization(1, CustomOrgData))

NextCalls ==
    \/ GetUser
    \/ GetOrganization
    \/ NewDocument
    \/ DrawHeader
    \/ DrawLogo
    \/ DrawCustomer
    \/ DrawCarDetails
    \/ DrawNotes
    \/ GalleryStart
    \/ GalleryImage
    \/ GalleryEnd
    \/ DrawFooter
    \/ DocEnd
    \/ Throw
    \/ Catch
    \/ OnData
    \/ OnEnd
    \/ StartSecond
    \/ Switch

SpecCalls == InitCalls /\ [][NextCalls]_vars

(***************************************************************************)
(* createPDF as a function of its argument: the blocks applied in order,   *)
(* for a call that does not fail.                                          *)
(***************************************************************************)
RECURSIVE GalleryRun(_, _, _, _, _)
GalleryRun(d, s, k, c, rowTop) ==
    IF k >= LoopBound(Len(s.images))
    THEN d
    ELSE LET ref == EntryAt(s, k)
             drawn == DrawImage(d, ref, ColumnX(c), rowTop)
             adv == Advance(c, rowTop, k, Len(s.images))
         IN  IF Handled(ref)
             THEN GalleryRun(IF adv.newPage THEN AddPage(drawn) ELSE drawn,
                             s, k + 1, adv.col, adv.startY)
             ELSE GalleryRun(d, s, k + 1, c, rowTop)

Gallery(d, s, st, py) ==
    IF HasImages(s)
    THEN LET newPage == py + 60 > TitleSpaceLimit
             titleY == IF newPage THEN TopMargin ELSE py + 60
             d0 == IF newPage THEN AddPage(d) ELSE d
         IN  GalleryRun(SectionTitle(d0, "Auto Afbeeldingen", titleY, st.primaryColor),
                        s, 0, 0, titleY + 20 + 20)
    ELSE d

RenderAlone(s) ==
    LET u == GetUserRec(users, s.userId)
        org == IF NeedsOrganization(u)
               THEN GetOrganizationRec(organizations, u.organizationId)
               ELSE UndefinedOrganization
        st == ResolveStyle(org)
        d1 == HeaderBand(NewDoc(s, org, now), st, s)
        d2 == LogoBox(d1, org, st.primaryColor)
        d3 == CarSection(CustomerSection(d2, st), st, s)
        d4 == IF Truthy(s.additionalRequirements)
              THEN NotesSection(d3, st, s.additionalRequirements, PriceRowY)
              ELSE d3
        d5 == Gallery(d4, s, st, CursorAfterNotes(PriceRowY, s.additionalRequirements))
    IN  Footer(d5, st)

\* The chunks the writer emits for a document of n pages.
Chunks(n) == <<HeaderChunk>> \o [k \in 1..n |-> PageChunk(k)] \o <<TrailerChunk>>

(***************************************************************************)
(* A render while the organization is being edited. PATCH                  *)
(* /api/organizations/:id hands the request body to updateOrganization,    *)
(* which puts a new record in the store; the record can be replaced at any *)
(* moment of a render (by a request between two awaits, or by another      *)
(* process on the database).                                               *)
(***************************************************************************)
\* Request bodies: a rebranding, a new name only, the name cleared, and the
\* original values again.
Patches ==
    {OrgPatch(ABSENT, "#aa0000", "#00aa00", "Garage Nieuw", "Tel: 010-1111111", ABSENT, ABSENT),
     OrgPatch(ABSENT, ABSENT, ABSENT, "Garage Nieuw", ABSENT, ABSENT, ABSENT),
     OrgPatch(LogoGone, ABSENT, ABSENT, "", ABSENT, ABSENT, ABSENT),
     OrgPatch(LogoOk, CustomValue("pdfPrimaryColor"), CustomValue("pdfSecondaryColor"),
              CustomValue("pdfCompanyName"), CustomValue("pdfContactInfo"), ABSENT, ABSENT)}

\* PATCH /api/organizations/:id for an organization that exists
PatchOrganization ==
    /\ \E id \in DOMAIN organizations, body \in Patches :
          organizations' = [organizations EXCEPT ![id] = UpdateOrganization(@, body)]
    /\ UNCHANGED <<users, uploads, corrupt, search, now, cur, started, parked, routing,
                   pc, user, organization, style, doc, y, col, startY, i, stream,
                   buffers, promise, error>>

InitUpdate ==
    /\ Locals
    /\ OneCall
    /\ now = 2
    /\ \E n \in {0, 2} : search = SearchRecord(n, NULL)
    /\ uploads = ImageFiles(2) \cup {LogoOk}
    /\ corrupt = {}
    /\ users = (1 :> [defined |-> TRUE, id |-> 1, organizationId |-> 1])
    /\ organizations = (1 :> CreateOrganization(1, CustomOrgData))

NextUpdate ==
    \/ GetUser
    \/ GetOrganization
    \/ NewDocument
    \/ DrawHeader
    \/ DrawLogo
    \/ DrawCustomer
    \/ DrawCarDetails
    \/ DrawNotes
    \/ GalleryStart
    \/ GalleryImage
    \/ GalleryEnd
    \/ DrawFooter
    \/ DocEnd
    \/ Throw
    \/ Catch
    \/ OnData
    \/ OnEnd
    \/ PatchOrganization

SpecUpdate == InitUpdate /\ [][NextUpdate]_vars

(***************************************************************************)
(* The search routes. Every handler looks the search up, answers 404 or    *)
(* 403, validates the body and calls the storage. Each await of a storage  *)
(* call is a point where the handler of another request may run (the       *)
(* storage is the database; with the in-memory storage the same steps run  *)
(* without other requests in between, which is one of the interleavings).  *)
(***************************************************************************)
Routes == {"get", "put", "status", "upload", "images", "delete", "pdf"}
SearchIds == {7, 9}
UserIds == {1, 2}

\* path.join(process.cwd(), "uploads"), as path segments
UploadDir == <<"app", "uploads">>

\* A reference split at its separators.
Segments(ref) ==
    CASE ref = "../server/key.png" -> <<"..", "server", "key.png">>
      [] ref = "/etc/passwd" -> <<"", "etc", "passwd">>
      [] ref = "old/../img1.jpg" -> <<"old", "..", "img1.jpg">>
      [] OTHER -> <<ref>>

\* path.normalize: empty and "." segments are dropped, ".." removes the
\* segment before it.
RECURSIVE Normalize(_, _)
Normalize(done, rest) ==
    IF rest = <<>>
    THEN done
    ELSE LET h == Head(rest)
         IN  IF h \in {"", "."}
             THEN Normalize(done, Tail(rest))
             ELSE IF h = ".."
                  THEN Normalize(IF done = <<>> THEN <<>>
                                 ELSE SubSeq(done, 1, Len(done) - 1), Tail(rest))
                  ELSE Normalize(Append(done, h), Tail(rest))

\* path.join(uploadDir, ref)
PathJoin(dir, ref) == Normalize(<<>>, dir \o Segments(ref))

\* The paths createPDF hands to fs.existsSync and doc.image for a search:
\* the owner's logo and the first four image references.
ProbedPaths(s) ==
    LET u == GetUserRec(users, s.userId)
        org == IF NeedsOrganization(u)
               THEN GetOrganizationRec(organizations, u.organizationId)
               ELSE UndefinedOrganization
    IN  (IF Truthy(org.logo) THEN {PathJoin(UploadDir, org.logo)} ELSE {})
        \cup (IF HasImages(s)
              THEN {PathJoin(UploadDir, EntryAt(s, k)) : k \in 0..(LoopBound(Len(s.images)) - 1)}
              ELSE {})

\* multer's filename: a fresh name per uploaded file, kept by path.basename
UploadName(h) == IF h = 1 THEN "up1.jpg" ELSE "up2.jpg"

\* Bodies of PATCH /api/searches/:id/images: any array of strings.
ImageBodies == {<<>>, <<"img1.jpg", "old/../img1.jpg">>, <<"/etc/passwd", "../server/key.png">>}

\* The keys insertSearchSchema keeps; zod drops every other key of the body.
InsertSearchKeys == {"additionalRequirements", "minPrice", "maxPrice", "status"}

\* The body of a PUT request, with or without keys the schema does not know.
PutBody(r) ==
    IF r.extra
    THEN [additionalRequirements |-> r.notes, minPrice |-> 950, id |-> 99,
          createdAt |-> 5, images |-> <<"/etc/passwd">>]
    ELSE [additionalRequirements |-> r.notes, minPrice |-> 950]

\* insertSearchSchema.parse(req.body)
ValidatedData(body) == [k \in (DOMAIN body) \cap InsertSearchKeys |-> body[k]]

\* updateSearch: the columns of searchData are set, images are those of the
\* record read before, id and the other columns stay.
UpdateSearch(row, existingSearch, searchData) ==
    [f \in DOMAIN row |->
        IF f = "id" THEN row.id
        ELSE IF f \in {"images", "imagesNull"} THEN existingSearch[f]
        ELSE IF f \in DOMAIN searchData THEN searchData[f]
        ELSE row[f]]

UpdateSearchStatus(row, status) == [row EXCEPT !.status = status]
UpdateSearchImages(row, images) == [row EXCEPT !.images = images, !.imagesNull = FALSE]
DeleteSearch(ss, id) == [k \in (DOMAIN ss) \ {id} |-> ss[k]]

\* The requests slot h may receive.
Requests(h) ==
    LET base(rt, u, id) == [NoRequest EXCEPT !.pc = "lookup", !.route = rt, !.user = u, !.id = id]
    IN  UNION {
          {base(rt, u, id) : rt \in {"get", "delete", "pdf"}}
          \cup {[base("put", u, id) EXCEPT !.valid = v, !.extra = e, !.notes = "Nieuwe wens"] :
                  v \in BOOLEAN, e \in BOOLEAN}
          \cup {[base("status", u, id) EXCEPT !.status = st] : st \in Statuses \cup {"sold"}}
          \cup {[base("upload", u, id) EXCEPT !.file = UploadName(h)]}
          \cup {[base("images", u, id) EXCEPT !.images = b] : b \in ImageBodies}
          \cup {[base("images", u, id) EXCEPT !.isArray = FALSE]}
          : u \in UserIds, id \in SearchIds}

Respond(r, code) == [r EXCEPT !.pc = "done", !.response = code]

\* A handler that lets every authenticated user through.
AuthorizedAnyone(s, u) == TRUE

\* search.userId !== req.user!.id
Authorized(s, u) == s.userId = u

\* The handler from its lookup to its next await or its response.
Checked(r) ==
    IF ~r.found THEN Respond(r, 404)
    ELSE IF ~Authorized(r.snapshot, r.user) THEN Respond(r, 403)
    ELSE CASE r.route = "get" -> Respond(r, 200)
           [] r.route = "put" -> IF r.valid THEN [r EXCEPT !.pc = "select"] ELSE Respond(r, 400)
           [] r.route = "status" ->
                IF r.status \in Statuses THEN [r EXCEPT !.pc = "write"] ELSE Respond(r, 400)
           [] r.route = "upload" ->
                [r EXCEPT !.pc = "write", !.images = r.snapshot.images \o <<r.file>>]
           [] r.route = "images" -> IF r.isArray THEN [r EXCEPT !.pc = "write"] ELSE Respond(r, 400)
           [] r.route = "delete" -> [r EXCEPT !.pc = "write"]
           [] r.route = "pdf" -> [r EXCEPT !.pc = "render"]

render == <<pc, user, organization, style, doc, y, col, startY, i, stream, buffers,
            promise, error>>

\* A request arrives; for the upload route multer has stored the file.
Receive(h) ==
    /\ handlers[h].pc = "idle"
    /\ \E r \in Requests(h) :
          /\ handlers' = [handlers EXCEPT ![h] = r]
          /\ uploads' = IF r.route = "upload" THEN uploads \cup {r.file} ELSE uploads
    /\ UNCHANGED <<users, organizations, corrupt, search, now, cur, started, parked,
                   searches, pdfCalls, probed, render>>

\* const search = await storage.getSearchById(id), then the checks; the pdf
\* route calls createPDF(search).
Lookup(h) ==
    LET r == handlers[h]
        found == r.id \in DOMAIN searches
        r1 == [r EXCEPT !.found = found,
                        !.snapshot = IF found THEN searches[r.id] ELSE r.snapshot]
    IN  /\ r.pc = "lookup"
        /\ handlers' = [handlers EXCEPT ![h] = Checked(r1)]
        /\ pdfCalls' = IF Checked(r1).pc = "render"
                       THEN Append(pdfCalls, [user |-> r.user, search |-> r1.snapshot])
                       ELSE pdfCalls
        /\ UNCHANGED <<stores, search, now, cur, started, parked, searches, probed, render>>

\* updateSearch reads the record to keep its images.
Select(h) ==
    LET r == handlers[h]
    IN  /\ r.pc = "select"
        /\ handlers' = [handlers EXCEPT ![h] =
                           IF r.id \in DOMAIN searches
                           THEN [r EXCEPT !.pc = "write", !.existing = searches[r.id]]
                           ELSE Respond(r, 500)]
        /\ UNCHANGED <<stores, search, now, cur, started, parked, searches, pdfCalls,
                       probed, render>>

\* The write of the storage call and the response.
Write(h) ==
    LET r == handlers[h]
        present == r.id \in DOMAIN searches
        data == ValidatedData(PutBody(r)) @@ [userId |-> r.user]
    IN  /\ r.pc = "write"
        /\ searches' =
              IF ~present THEN searches
              ELSE CASE r.route = "put" ->
                          [searches EXCEPT ![r.id] = UpdateSearch(@, r.existing, data)]
                     [] r.route = "status" ->
                          [searches EXCEPT ![r.id] = UpdateSearchStatus(@, r.status)]
                     [] r.route \in {"upload", "images"} ->
                          [searches EXCEPT ![r.id] = UpdateSearchImages(@, r.images)]
                     [] r.route = "delete" -> DeleteSearch(searches, r.id)
        /\ handlers' = [handlers EXCEPT ![h] =
                           IF present \/ r.route \in {"put", "delete"}
                           THEN [Respond(r, 200) EXCEPT !.wrote = present]
                           ELSE Respond(r, 500)]
        /\ UNCHANGED <<stores, search, now, cur, started, parked, pdfCalls, probed, render>>

\* createPDF runs for the search it was handed and the buffer is sent.
RenderPdf(h) ==
    LET r == handlers[h]
    IN  /\ r.pc = "render"
        /\ probed' = probed \cup ProbedPaths(r.snapshot)
        /\ handlers' = [handlers EXCEPT ![h] = Respond(r, 200)]
        /\ UNCHANGED <<stores, search, now, cur, started, parked, searches, pdfCalls, render>>

InitRoutes ==
    /\ Locals
    /\ OneCall
    /\ now = 2
    /\ search = SearchRecord(0, NULL)
    /\ uploads = {"img1.jpg", LogoOk}
    /\ corrupt = {}
    /\ users = (1 :> [defined |-> TRUE, id |-> 1, organizationId |-> 1]
                @@ 2 :> [defined |-> TRUE, id |-> 2, organizationId |-> 0])
    /\ organizations = (1 :> CreateOrganization(1, CustomOrgData))

NextRoutes ==
    \/ \E h \in Slots : Receive(h)
    \/ \E h \in Slots : Lookup(h)
    \/ \E h \in Slots : Select(h)
    \/ \E h \in Slots : Write(h)
    \/ \E h \in Slots : RenderPdf(h)

SpecRoutes == InitRoutes /\ [][NextRoutes]_vars

TypeOK ==
    /\ pc \in TryBlocks \cup {"catch", "done"}
    /\ col \in {0, 1}
    /\ i \in 0..MaxImages
    /\ promise.state \in {"pending", "resolved", "rejected"}

(***************************************************************************)
(* Vocabulary of the properties                                            *)
(***************************************************************************)
BlockOrder == <<"getUser", "getOrg", "newDoc", "header", "logo", "customer", "car",
                "notes", "gallery", "galleryLoop", "footer", "end", "done">>
BlockIndex(b) == CHOOSE k \in 1..Len(BlockOrder) : BlockOrder[k] = b

\* The block the render has reached: the failing block once one has thrown.
Position == IF error # NoError THEN error.at ELSE pc

\* Block b has run to its end.
Completed(b) == BlockIndex(Position) > BlockIndex(b)

Failed == error # NoError

\* Indices (1-based) of the primitives satisfying a test.
PrimsWhere(Test(_)) == {k \in 1..Len(doc.prims) : Test(doc.prims[k])}

IsText(p, arg) == p.op = "text" /\ p.arg = arg

\* The gallery boxes in drawing order: the images and boxes drawn after the
\* gallery title.
IsGalleryTitle(p) == IsText(p, <<"Auto Afbeeldingen">>)
IsBox(p) == p.op \in {"image", "rect"}
GallerySlots ==
    IF PrimsWhere(IsGalleryTitle) = {}
    THEN <<>>
    ELSE LET t == CHOOSE k \in PrimsWhere(IsGalleryTitle) : TRUE
         IN  SelectSeq(SubSeq(doc.prims, t + 1, Len(doc.prims)), IsBox)

\* The entries the gallery considers, and what the uploads store holds for
\* entry k (1-based).
Considered == Min(Len(search.images), GalleryCap)
Missing(k) == search.images[k] \notin uploads
Readable(k) == search.images[k] \in uploads \ corrupt
Unreadable(k) == search.images[k] \in corrupt

\* The record createPDF finds for the owner of the search, from the storage.
OwnerOrganization ==
    IF search.userId \in DOMAIN users
       /\ users[search.userId].organizationId \in DOMAIN organizations
    THEN organizations[users[search.userId].organizationId]
    ELSE UndefinedOrganization

GalleryDone == Completed("galleryLoop")

\* The grid slot of the k-th considered entry.
SlotX(k) == ColumnX((k - 1) % 2)

(***************************************************************************)
(* C1: once the gallery is laid out, every considered entry has its own    *)
(* grid slot: the k-th considered entry is drawn k-th, in column           *)
(* (k-1) mod 2, as a placeholder box when its file is missing and as the   *)
(* image when it is readable; a render that did not fail resolves.         *)
(***************************************************************************)
C1_MissingImagePlaceholder ==
    /\ GalleryDone =>
         LET slots == GallerySlots
         IN  /\ Len(slots) = Considered
             /\ \A k \in 1..Considered :
                  /\ slots[k].x = SlotX(k)
                  /\ Missing(k) => slots[k].op = "rect"
                  /\ Readable(k) => /\ slots[k].op = "image"
                                    /\ slots[k].arg = <<search.images[k]>>
    /\ (doc.endEmitted /\ ~Failed) => promise.state = "resolved"

(***************************************************************************)
(* C2: no gallery box is drawn at a row-top from which it would pass the   *)
(* bottom threshold: row-top + 160 <= 750 for every box.                   *)
(***************************************************************************)
C2_NoBoxBelowThreshold ==
    LET slots == GallerySlots
    IN  \A k \in 1..Len(slots) : slots[k].y + imgHeight <= PageBottom

\* The gallery images drawn (not the placeholder boxes).
IsGalleryImage(p) == p.op = "image" /\ p.w = imgWidth /\ p.h = imgHeight
CappedNames == {ImageNames[k] : k \in 1..GalleryCap}

(***************************************************************************)
(* C3: no entry at index 4 or higher (0-based) is ever drawn, at most 4    *)
(* gallery boxes exist, and when the first min(N,4) entries all exist the  *)
(* gallery holds exactly min(N,4) boxes, each the image itself when it is  *)
(* readable.                                                               *)
(***************************************************************************)
C3_GalleryCap ==
    /\ \A k \in PrimsWhere(IsGalleryImage) : doc.prims[k].arg[1] \in CappedNames
    /\ Len(GallerySlots) <= GalleryCap
    /\ (GalleryDone /\ \A k \in 1..Considered : ~Missing(k)) =>
          /\ Len(GallerySlots) = Considered
          /\ (\A k \in 1..Considered : Readable(k)) =>
                Cardinality(PrimsWhere(IsGalleryImage)) = Considered

C3_Witness ==
    /\ GalleryDone
    /\ Len(search.images) = GalleryCap + 2
    /\ \A k \in 1..Len(search.images) : Readable(k)
    /\ Cardinality(PrimsWhere(IsGalleryImage)) = GalleryCap

(***************************************************************************)
(* C4: the two boxes of a row share page and row-top, column 0 first, and  *)
(* a gallery step starts a page only when it has just filled column 1.     *)
(***************************************************************************)
RowPairs ==
    LET slots == GallerySlots
    IN  \A k \in 1..Len(slots) :
            k % 2 = 0 =>
                /\ slots[k - 1].x = ColumnX(0)
                /\ slots[k].x = ColumnX(1)
                /\ slots[k].page = slots[k - 1].page
                /\ slots[k].y = slots[k - 1].y

BreakAfterColumnOne ==
    (pc = "galleryLoop" /\ doc'.pages # doc.pages) => (col = 1 /\ col' = 0)

C4_BreakAtRowBoundary == [](RowPairs) /\ [][BreakAfterColumnOne]_vars

C4_Witness ==
    LET slots == GallerySlots
    IN  /\ Len(slots) = 4
        /\ slots[2].page = 1
        /\ slots[3].page = 2
        /\ slots[4].page = 2

\* Entry k (1-based, existing) is drawn as box number SlotOf(k).
SlotOf(k) == Cardinality({j \in 1..k : ~Missing(j)})

\* The label of a placeholder box follows the box at (x + 50, y + 74).
LabelFollows(box) ==
    \E n \in 1..(Len(doc.prims) - 1) :
        /\ doc.prims[n] = box
        /\ IsText(doc.prims[n + 1], <<"Afbeelding niet beschikbaar">>)
        /\ doc.prims[n + 1].x = box.x + 50
        /\ doc.prims[n + 1].y = box.y + 74
        /\ doc.prims[n + 1].page = box.page

(***************************************************************************)
(* C5: an existing entry whose drawing throws gets a 230x160 placeholder   *)
(* box in its own slot; boxes follow the grid whatever their kind (column  *)
(* alternates, a row-1 box shares row-top and page with its neighbour, a   *)
(* new row is 175 lower or at 50 on the next page); a render in which no   *)
(* block failed resolves.                                                  *)
(***************************************************************************)
C5_ThrowingImagePlaceholder ==
    LET slots == GallerySlots
    IN  /\ \A k \in 1..Len(slots) :
              /\ slots[k].w = imgWidth /\ slots[k].h = imgHeight
              /\ slots[k].x = SlotX(k)
              /\ (k % 2 = 0) =>
                    /\ slots[k].y = slots[k - 1].y
                    /\ slots[k].page = slots[k - 1].page
              /\ (k % 2 = 1 /\ k > 1) =>
                    \/ /\ slots[k].y = slots[k - 1].y + imgHeight + margin
                       /\ slots[k].page = slots[k - 1].page
                    \/ /\ slots[k].y = TopMargin
                       /\ slots[k].page = slots[k - 1].page + 1
        /\ GalleryDone =>
              \A k \in 1..Considered :
                  ~Missing(k) =>
                      /\ SlotOf(k) <= Len(slots)
                      /\ Unreadable(k) => /\ slots[SlotOf(k)].op = "rect"
                                          /\ slots[SlotOf(k)].color = lightGray
                                          /\ LabelFollows(slots[SlotOf(k)])
                      /\ Readable(k) => slots[SlotOf(k)].arg = <<search.images[k]>>
        /\ (doc.endEmitted /\ ~Failed) => promise.state = "resolved"

C5_Witness ==
    /\ promise.state = "resolved"
    /\ Len(search.images) = 4
    /\ Unreadable(1) /\ Readable(2) /\ Unreadable(3) /\ Readable(4)
    /\ LET slots == GallerySlots
       IN  /\ Len(slots) = 4
           /\ slots[1].op = "rect"
           /\ slots[3].op = "rect" /\ slots[3].page = 2

\* What is drawn in the header logo box (60, 60, 100 x 60).
InLogoBox(p) == p.x = 60 /\ p.y = 60 /\ p.w = 100 /\ p.h = 60
IsLogoImage(p) == p.op = "image" /\ InLogoBox(p)
IsLogoPlaceholder(p) == p.op = "rect" /\ InLogoBox(p)
IsLogoLabel(p) == IsText(p, <<"LOGO">>) /\ p.x = 90 /\ p.y = 80

\* The cases in which the placeholder is due, read off the stored records.
LogoUnavailable ==
    \/ ~OwnerOrganization.defined
    \/ ~Truthy(OwnerOrganization.logo)
    \/ OwnerOrganization.logo \notin uploads
    \/ OwnerOrganization.logo \in corrupt

(***************************************************************************)
(* C6: once the logo block has run, the logo box holds exactly one of the  *)
(* logo image and the "LOGO" placeholder (box and label); it is the        *)
(* placeholder exactly when there is no organization, no logo reference,   *)
(* no such file, or the drawing throws; none of these cases puts an error  *)
(* in flight, and a render in which no block failed resolves.              *)
(***************************************************************************)
C6_LogoOrPlaceholder ==
    /\ Completed("logo") =>
          /\ Cardinality(PrimsWhere(IsLogoImage)) + Cardinality(PrimsWhere(IsLogoPlaceholder)) = 1
          /\ Cardinality(PrimsWhere(IsLogoLabel)) = Cardinality(PrimsWhere(IsLogoPlaceholder))
          /\ LogoUnavailable <=> Cardinality(PrimsWhere(IsLogoPlaceholder)) = 1
          /\ \A k \in PrimsWhere(IsLogoImage) : doc.prims[k].arg = <<OwnerOrganization.logo>>
    /\ ~Completed("logo") =>
          PrimsWhere(IsLogoImage) \cup PrimsWhere(IsLogoPlaceholder) = {}
    /\ (doc.endEmitted /\ ~Failed) => promise.state = "resolved"
    /\ promise.state = "rejected" => Failed

C6_Witness ==
    /\ promise.state = "resolved"
    /\ OwnerOrganization.defined
    /\ OwnerOrganization.logo = LogoBad
    /\ Cardinality(PrimsWhere(IsLogoPlaceholder)) = 1

\* The value a style field is to take: the organization's when the owner has
\* an organization and the field is non-empty, the default otherwise.
Branded(field, default) ==
    IF OwnerOrganization.defined /\ OwnerOrganization[field] \notin {NULL, ""}
    THEN OwnerOrganization[field]
    ELSE default

IsCompanyName(p) == p.op = "text" /\ p.x = 180 /\ p.y = 65
IsTagline(p) == p.op = "text" /\ p.y = FooterY
IsContactLine(p) == p.op = "text" /\ p.y = FooterY + 15
IsSectionTitle(p) == p.op = "text" /\ p.size = 14 /\ p.x = 50
IsSubtitle(p) == IsText(p, <<"Zoekopdracht Rapport">>)

(***************************************************************************)
(* C7: the four style values are the organization's non-empty value or the *)
(* default, and they are what is drawn: the header shows the company name  *)
(* in the primary color, the subtitle is in the text color, the section    *)
(* titles in the primary color, the footer shows company name and contact  *)
(* line.                                                                   *)
(***************************************************************************)
C7_BrandingOrDefault ==
    /\ Completed("newDoc") =>
          /\ style.primaryColor = Branded("pdfPrimaryColor", "#4a6da7")
          /\ style.textColor = Branded("pdfSecondaryColor", "#333333")
          /\ style.companyName = Branded("pdfCompanyName", "CarSearch Pro")
          /\ style.contactInfo = Branded("pdfContactInfo", DefaultContactInfo)
    /\ Completed("header") =>
          /\ Cardinality(PrimsWhere(IsCompanyName)) = 1
          /\ \A k \in PrimsWhere(IsCompanyName) :
                /\ doc.prims[k].arg = <<Branded("pdfCompanyName", "CarSearch Pro")>>
                /\ doc.prims[k].color = Branded("pdfPrimaryColor", "#4a6da7")
          /\ \A k \in PrimsWhere(IsSubtitle) :
                doc.prims[k].color = Branded("pdfSecondaryColor", "#333333")
    /\ \A k \in PrimsWhere(IsSectionTitle) :
          doc.prims[k].color = Branded("pdfPrimaryColor", "#4a6da7")
    /\ Completed("footer") =>
          /\ \E k \in PrimsWhere(IsTagline) :
                doc.prims[k].arg[1] = Branded("pdfCompanyName", "CarSearch Pro")
          /\ \E k \in PrimsWhere(IsContactLine) :
                doc.prims[k].arg = <<Branded("pdfContactInfo", DefaultContactInfo)>>

C7_Witness ==
    /\ Completed("footer")
    /\ OwnerOrganization.defined
    /\ OwnerOrganization.pdfCompanyName = "Auto Jansen"
    /\ OwnerOrganization.pdfPrimaryColor = ""
    /\ \E k \in PrimsWhere(IsCompanyName) :
          /\ doc.prims[k].arg = <<"Auto Jansen">>
          /\ doc.prims[k].color = "#4a6da7"

C7_NoOrganizationSeen ==
    /\ Completed("footer")
    /\ ~OwnerOrganization.defined
    /\ \E k \in PrimsWhere(IsCompanyName) : doc.prims[k].arg = <<"CarSearch Pro">>

(***************************************************************************)
(* C8: the company name in the header is drawn in the organization's       *)
(* header font and the subtitle in its body font, when these are set.      *)
(***************************************************************************)
C8_ConfiguredFonts ==
    Completed("header") =>
        /\ \A k \in PrimsWhere(IsCompanyName) :
              doc.prims[k].font = Branded("pdfHeaderFont", "Helvetica-Bold")
        /\ \A k \in PrimsWhere(IsSubtitle) :
              doc.prims[k].font = Branded("pdfBodyFont", "Helvetica")

\* The primitives of the notes section.
IsNotesTitle(p) == IsText(p, <<"Aanvullende eisen">>)
IsNotesParagraph(p) == p.op = "text" /\ p.arg = <<search.additionalRequirements>>
IsRule(p) == p.op = "line"
IsPriceLabel(p) == IsText(p, <<"Prijsrange:">>)
HasNotes == search.additionalRequirements \notin {NULL, ""}
PriceY == LET k == CHOOSE n \in PrimsWhere(IsPriceLabel) : TRUE IN doc.prims[k].y

(***************************************************************************)
(* C9: title, rule and paragraph of the notes section are drawn if and     *)
(* only if additionalRequirements is non-empty; the gallery title is 60    *)
(* below the price row without notes and 130 below it with notes.          *)
(***************************************************************************)
C9_NotesOmission ==
    /\ Completed("notes") =>
          /\ Cardinality(PrimsWhere(IsNotesTitle)) = IF HasNotes THEN 1 ELSE 0
          /\ Cardinality(PrimsWhere(IsNotesParagraph)) = IF HasNotes THEN 1 ELSE 0
          /\ Cardinality(PrimsWhere(IsRule)) =
                2 + (IF HasNotes THEN 1 ELSE 0)
                  + (IF PrimsWhere(IsGalleryTitle) # {} THEN 1 ELSE 0)
          /\ HasNotes =>
                \E t \in PrimsWhere(IsNotesTitle), r \in PrimsWhere(IsRule),
                   n \in PrimsWhere(IsNotesParagraph) :
                    /\ doc.prims[t].y = PriceY + 40
                    /\ doc.prims[r].y = PriceY + 60
                    /\ doc.prims[n].y = PriceY + 70
    /\ ~Completed("notes") => PrimsWhere(IsNotesTitle) = {}
    /\ \A k \in PrimsWhere(IsGalleryTitle) :
          /\ doc.prims[k].page = 1
          /\ doc.prims[k].y = IF HasNotes THEN PriceY + 60 + 70 ELSE PriceY + 60

C9_Witness ==
    /\ search.additionalRequirements = ""
    /\ \E k \in PrimsWhere(IsGalleryTitle) : doc.prims[k].y = 440
    /\ promise.state = "resolved"

C9_WithNotesSeen ==
    /\ HasNotes
    /\ \E k \in PrimsWhere(IsGalleryTitle) : doc.prims[k].y = 510

(***************************************************************************)
(* C10: when a block outside the per-asset catch blocks has failed, the    *)
(* promise is never resolved and, once the catch block has run, it is      *)
(* rejected with that error and carries no buffer; a settled promise       *)
(* never changes.                                                          *)
(***************************************************************************)
FailureRejects ==
    /\ Failed => promise.state # "resolved"
    /\ (Failed /\ pc = "done") =>
          /\ promise.state = "rejected"
          /\ promise.error = error
          /\ promise.buffer = <<>>
    /\ promise.state = "resolved" => (doc.endEmitted /\ promise.buffer = buffers)

SettledOnce == promise.state # "pending" => promise' = promise

C10_FailureRejectsOnce == [](FailureRejects) /\ [][SettledOnce]_vars

C10_Witness ==
    /\ pc = "done"
    /\ error.at = "footer"
    /\ promise.state = "rejected"
    /\ Len(buffers) = 2
    /\ stream = <<>>

\* The render has run to its end and the "end" event has been delivered.
Finished == pc = "done" /\ ~Failed /\ doc.endEmitted
PageChunks(chunks) == SelectSeq(chunks, LAMBDA c : c.kind = "page")

C12_EmptyListNoOrganizationSeen ==
    /\ ~search.imagesNull
    /\ search.images = <<>>
    /\ ~HasNotes
    /\ ~organization.defined
    /\ Finished

(***************************************************************************)
(* C13: the tagline and the contact line are drawn exactly once, as the    *)
(* last two primitives of the render, after every other section, and on    *)
(* the page that is current after all gallery page breaks; nothing is      *)
(* drawn and no page is added after them.                                  *)
(***************************************************************************)
IsFooterTagline(p) ==
    IsText(p, <<style.companyName, " - Uw specialist in auto zoekopdrachten">>)
IsFooterContact(p) == IsText(p, <<style.contactInfo>>) /\ p.size = 8

C13_FooterOnceOnFinalPage ==
    /\ ~Completed("footer") =>
          /\ PrimsWhere(IsFooterTagline) = {}
          /\ PrimsWhere(IsFooterContact) = {}
    /\ Completed("footer") =>
          LET n == Len(doc.prims)
          IN  /\ PrimsWhere(IsFooterTagline) = {n - 1}
              /\ PrimsWhere(IsFooterContact) = {n}
              /\ doc.prims[n - 1].page = doc.pages
              /\ doc.prims[n].page = doc.pages
              /\ \A k \in 1..n : doc.prims[k].page <= doc.pages
              /\ Finished => Len(PageChunks(promise.buffer)) = doc.pages

C13_Witness ==
    /\ Finished
    /\ doc.pages = 2
    /\ \E k \in 1..Len(doc.prims) : IsGalleryImage(doc.prims[k]) /\ doc.prims[k].page = 2
    /\ doc.prims[Len(doc.prims)].page = 2
    /\ doc.prims[Len(doc.prims)].y = FooterY + 15

(***************************************************************************)
(* C14: once the document exists its title is "Zoekopdracht " followed by  *)
(* the search id, its author is the organization's company name or the     *)
(* default, the same string that the header and the footer tagline show,   *)
(* and its creation date is the clock value at the render, whatever the    *)
(* search's createdAt is.                                                  *)
(***************************************************************************)
C14_DocumentInfo ==
    /\ ~Completed("newDoc") => ~doc.created
    /\ Completed("newDoc") =>
          /\ doc.created
          /\ doc.title = <<"Zoekopdracht ", search.id>>
          /\ doc.author = Branded("pdfCompanyName", "CarSearch Pro")
          /\ doc.author = style.companyName
          /\ doc.creationDate = now
    /\ \A k \in PrimsWhere(IsCompanyName) : doc.prims[k].arg = <<doc.author>>
    /\ \A k \in PrimsWhere(IsTagline) : doc.prims[k].arg[1] = doc.author

C14_Witness ==
    /\ Finished
    /\ search.id = 8
    /\ doc.title = <<"Zoekopdracht ", 8>>
    /\ doc.author = "Auto Jansen"
    /\ doc.creationDate = 3
    /\ search.createdAt = 1
    /\ PrimsWhere(IsTagline) # {}

C14_SameDaySeen ==
    /\ Finished
    /\ doc.creationDate = search.createdAt
    /\ doc.author = "Auto Jansen"

C14_DefaultAuthorSeen ==
    /\ Finished
    /\ doc.author = "CarSearch Pro"
    /\ PrimsWhere(IsTagline) # {}

(***************************************************************************)
(* C16: a page is added to an existing document only by the page-break     *)
(* test made after a column-1 image of the gallery loop, where the next    *)
(* row would pass y = 750; the cursor before the gallery title is never    *)
(* beyond 650, so the space check before the title never adds a page.      *)
(***************************************************************************)
PreGalleryFits ==
    /\ pc = "gallery" => y + 60 <= 650
    /\ \A k \in PrimsWhere(IsGalleryTitle) : doc.prims[k].page = 1 /\ doc.prims[k].y <= 650

PageOnlyAtRowBoundary ==
    (doc.created /\ doc'.pages # doc.pages) =>
        /\ pc = "galleryLoop"
        /\ col = 1
        /\ col' = 0
        /\ startY + 160 + 15 + 160 > 750
        /\ startY' = 50
        /\ doc'.pages = doc.pages + 1
        /\ Len(doc'.prims) > Len(doc.prims)

IsPriceValue(p) == p.op = "text" /\ p.x = 150 /\ p.y = 380

C17_PricesAsGiven ==
    /\ Completed("car") =>
          /\ Cardinality(PrimsWhere(IsPriceValue)) = 1
          /\ \A k \in PrimsWhere(IsPriceValue) :
                /\ doc.prims[k].arg = <<"€", ToLocaleString(search.minPrice),
                                        " - €", ToLocaleString(search.maxPrice)>>
                /\ k > 1
                /\ IsPriceLabel(doc.prims[k - 1])
    /\ Finished => promise.state = "resolved"

C17_Witness ==
    /\ Finished
    /\ search.minPrice = 25000
    /\ search.maxPrice = 950
    /\ \E k \in PrimsWhere(IsPriceValue) :
          doc.prims[k].arg = <<"€", "25,000", " - €", "950">>

C17_NegativePriceSeen ==
    /\ Finished
    /\ search.minPrice = 0
    /\ search.maxPrice = -500

(***************************************************************************)
(* C19: the k-th box the gallery draws (k from 0) is in column k mod 2, at *)
(* x = 50 in column 0 and x = 295 in column 1; a column-1 box shares row   *)
(* and page with the box before it; after a column-1 box the toggle is 0   *)
(* again and the row-top is 175 lower, or 50 on a new page. Four existing  *)
(* images give two rows of two boxes.                                      *)
(***************************************************************************)
GridPlacement ==
    LET slots == GallerySlots
    IN  /\ \A k \in 1..Len(slots) :
              /\ slots[k].x = IF (k - 1) % 2 = 0 THEN 50 ELSE 295
              /\ (k % 2 = 0) => (slots[k].y = slots[k - 1].y /\ slots[k].page = slots[k - 1].page)
              /\ (k % 2 = 1 /\ k > 1) =>
                    \/ slots[k].y = slots[k - 1].y + 175 /\ slots[k].page = slots[k - 1].page
                    \/ slots[k].y = 50 /\ slots[k].page = slots[k - 1].page + 1
        /\ pc = "galleryLoop" => col = Len(slots) % 2
        /\ (GalleryDone /\ Len(search.images) = 4 /\ \A k \in 1..4 : ~Missing(k)) =>
              /\ Len(slots) = 4
              /\ <<slots[1].x, slots[2].x, slots[3].x, slots[4].x>> = <<50, 295, 50, 295>>
              /\ slots[1].y = slots[2].y
              /\ slots[3].y = slots[4].y
              /\ <<slots[3].page, slots[3].y>> # <<slots[1].page, slots[1].y>>

RowAdvance ==
    (pc = "galleryLoop" /\ Len(doc'.prims) > Len(doc.prims)) =>
        IF col = 0
        THEN col' = 1 /\ startY' = startY /\ doc'.pages = doc.pages
        ELSE /\ col' = 0
             /\ \/ startY' = startY + 175 /\ doc'.pages = doc.pages
                \/ startY' = 50 /\ doc'.pages = doc.pages + 1

C19_TwoColumnGrid == [](GridPlacement) /\ [][RowAdvance]_vars

C19_Witness ==
    /\ Finished
    /\ Len(search.images) = 4
    /\ \A k \in 1..4 : Readable(k)
    /\ Len(GallerySlots) = 4
    /\ GallerySlots[2].x = 295
    /\ GallerySlots[4].x = 295

C19_SamePageRowsSeen ==
    /\ GalleryDone
    /\ Len(GallerySlots) >= 3
    /\ GallerySlots[3].page = 1
    /\ GallerySlots[3].y = GallerySlots[1].y + 175

(***************************************************************************)
(* C20: a page is added in the gallery only when a further image or        *)
(* placeholder follows on it: once the gallery is laid out, a document of  *)
(* more than one page has a gallery box on its last page.                  *)
(***************************************************************************)
C20_NoEmptyGalleryPage ==
    (GalleryDone /\ doc.pages > 1) =>
        LET slots == GallerySlots
        IN  \E k \in 1..Len(slots) : slots[k].page = doc.pages

(***************************************************************************)
(* Vocabulary of the two-call properties                                   *)
(***************************************************************************)
CallFinished(c) == c.pc = "done" /\ c.error = NoError /\ c.doc.endEmitted
BothFinished == started = 2 /\ CallFinished(Running) /\ CallFinished(parked)
TextRuns(d) ==
    LET texts == SelectSeq(d.prims, LAMBDA p : p.op = "text")
    IN  [k \in 1..Len(texts) |->
            [arg |-> texts[k].arg, x |-> texts[k].x, y |-> texts[k].y,
             page |-> texts[k].page]]

(***************************************************************************)
(* C15: whatever the interleaving of two createPDF calls at their awaits   *)
(* and stream events, a call that finishes has drawn the primitives, has   *)
(* the page count and resolves with the buffer of the same call run alone; *)
(* a step of one call leaves the closure of the other as it was, and a     *)
(* resumed call finds its closure as it left it.                           *)
(***************************************************************************)
AsAlone(c) ==
    CallFinished(c) =>
        LET alone == RenderAlone(c.search)
        IN  /\ c.doc.prims = alone.prims
            /\ c.doc.pages = alone.pages
            /\ c.promise.state = "resolved"
            /\ c.promise.buffer = Chunks(alone.pages)

EachCallAsAlone == AsAlone(Running) /\ (started = 2 => AsAlone(parked))

ClosuresApart ==
    /\ cur' = cur => parked' = parked
    /\ (cur' # cur /\ started = 2) => (parked' = Running /\ Running' = parked)
    /\ (cur' # cur /\ started = 1) => (parked' = Running /\ Running' = Fresh(search'))

C15_ConcurrentCallsIsolated == [](EachCallAsAlone) /\ [][ClosuresApart]_vars

\* Both calls were in flight together: the second one started while the
\* first was awaiting, finished first, and both resolved with two pages.
C15_Witness ==
    /\ BothFinished
    /\ cur = 1
    /\ Len(parked.promise.buffer) = 3
    /\ Len(promise.buffer) = 4
    /\ parked.search = OtherSearch

(***************************************************************************)
(* C11: two calls of createPDF for the same search record, with the        *)
(* storage and the uploads directory unchanged, the clock possibly not,    *)
(* emit the same text runs (string, x, y, page) in the same order and      *)
(* produce the same number of pages.                                       *)
(***************************************************************************)
C11_Deterministic ==
    (BothFinished /\ parked.search = search) =>
        /\ TextRuns(doc) = TextRuns(parked.doc)
        /\ doc.pages = parked.doc.pages
        /\ Len(PageChunks(promise.buffer)) = Len(PageChunks(parked.promise.buffer))

\* The second call was made a day later, after the first one had finished.
C11_Witness ==
    /\ BothFinished
    /\ parked.search = search
    /\ parked.doc.creationDate # doc.creationDate
    /\ doc.pages = 2
    /\ Len(TextRuns(doc)) > 20

(***************************************************************************)
(* C18: two searches that differ only in their status are rendered alike:  *)
(* the two calls draw the same sequence of primitives and produce the same *)
(* number of pages.                                                        *)
(***************************************************************************)
DifferOnlyInStatus(s, t) == s.status # t.status /\ [s EXCEPT !.status = t.status] = t

C18_StatusIrrelevant ==
    (BothFinished /\ DifferOnlyInStatus(search, parked.search)) =>
        /\ doc.prims = parked.doc.prims
        /\ doc.pages = parked.doc.pages
        /\ promise.buffer = parked.promise.buffer

C18_Witness ==
    /\ BothFinished
    /\ search.status = "completed"
    /\ parked.search.status = "active"
    /\ DifferOnlyInStatus(search, parked.search)
    /\ HasImages(search)
    /\ doc.pages = 2

\* The entry (1-based) shown in the k-th gallery box.
EntryOfSlot(k) == CHOOSE j \in 1..Considered : ~Missing(j) /\ SlotOf(j) = k

\* Box a comes before box b in (page, row, column) order.
SlotBefore(a, b) ==
    \/ a.page < b.page
    \/ a.page = b.page /\ a.y < b.y
    \/ a.page = b.page /\ a.y = b.y /\ a.x < b.x

(***************************************************************************)
(* C21: the gallery shows the entries in list order: the k-th box belongs  *)
(* to the k-th entry that is drawn (the image itself when the file is      *)
(* readable), and of two drawn entries the one with the lower index has    *)
(* the earlier slot in (page, row, column) order.                          *)
(***************************************************************************)
C21_InsertionOrder ==
    LET slots == GallerySlots
    IN  /\ Len(slots) <= Cardinality({j \in 1..Considered : ~Missing(j)})
        /\ \A k \in 1..Len(slots) :
              LET j == EntryOfSlot(k)
              IN  /\ Readable(j) => (slots[k].op = "image" /\ slots[k].arg = <<search.images[j]>>)
                  /\ Unreadable(j) => slots[k].op = "rect"
        /\ \A k, l \in 1..Len(slots) :
              k < l => (EntryOfSlot(k) < EntryOfSlot(l) /\ SlotBefore(slots[k], slots[l]))

C21_Witness ==
    LET slots == GallerySlots
    IN  /\ Finished
        /\ Len(search.images) = 5
        /\ Missing(2)
        /\ Len(slots) = 3
        /\ slots[2].arg = <<"img3.jpg">>
        /\ slots[3].arg = <<"img4.jpg">>
        /\ slots[3].page = 2

(***************************************************************************)
(* C22: doc.end() is called once, by the end block after the footer; from  *)
(* then on no primitive is drawn and no page is added; the chunks reach    *)
(* the handler in the order the writer emitted them; the promise resolves  *)
(* only in the step that delivers the end event, with header, every page   *)
(* in order and trailer. A render that did not fail has ended.             *)
(***************************************************************************)
\* Pages 1..n-1 are emitted when the next page is added, page n and the
\* trailer by doc.end().
EmittedInOrder ==
    doc.created =>
        buffers \o stream =
            IF doc.ended THEN Chunks(doc.pages)
            ELSE <<HeaderChunk>> \o [k \in 1..(doc.pages - 1) |-> PageChunk(k)]

EndedAfterFooter ==
    /\ doc.ended =>
          /\ pc = "done"
          /\ ~Failed
          /\ PrimsWhere(IsFooterContact) = {Len(doc.prims)}
    /\ (pc = "done" /\ ~Failed) => doc.ended
    /\ doc.endEmitted => doc.ended
    /\ promise.state = "resolved" =>
          /\ doc.endEmitted
          /\ stream = <<>>
          /\ promise.buffer = Chunks(doc.pages)

EndOnce ==
    /\ doc.ended => (doc'.ended /\ doc'.prims = doc.prims /\ doc'.pages = doc.pages)
    /\ (~doc.ended /\ doc'.ended) => (pc = "end" /\ pc' = "done" /\ doc'.prims = doc.prims)
    /\ (promise.state # "resolved" /\ promise'.state = "resolved") =>
          (~doc.endEmitted /\ doc'.endEmitted /\ promise'.buffer = buffers)

C22_FinalizedOnce == [](EmittedInOrder /\ EndedAfterFooter) /\ [][EndOnce]_vars

C22_Witness ==
    /\ Finished
    /\ doc.pages = 2
    /\ promise.state = "resolved"
    /\ promise.buffer = <<HeaderChunk, PageChunk(1), PageChunk(2), TrailerChunk>>

(***************************************************************************)
(* C23: the record createPDF holds is the one the store held when it was   *)
(* looked up, and it is never looked up again: while the store's record is *)
(* replaced during the render, the styling variables, the Author, the      *)
(* header company name and its color, the section title color and the two  *)
(* footer lines all come from that one held record.                        *)
(***************************************************************************)
BrandingFromHeldRecord ==
    /\ Completed("newDoc") =>
          /\ style = ResolveStyle(organization)
          /\ doc.author = style.companyName
    /\ \A k \in PrimsWhere(IsCompanyName) :
          /\ doc.prims[k].arg = <<OrElse(organization.pdfCompanyName, DefaultCompanyName)>>
          /\ doc.prims[k].color = OrElse(organization.pdfPrimaryColor, DefaultPrimaryColor)
    /\ \A k \in PrimsWhere(IsSectionTitle) :
          doc.prims[k].color = OrElse(organization.pdfPrimaryColor, DefaultPrimaryColor)
    /\ \A k \in PrimsWhere(IsSubtitle) :
          doc.prims[k].color = OrElse(organization.pdfSecondaryColor, DefaultTextColor)
    /\ \A k \in PrimsWhere(IsTagline) :
          doc.prims[k].arg[1] = OrElse(organization.pdfCompanyName, DefaultCompanyName)
    /\ \A k \in PrimsWhere(IsContactLine) :
          doc.prims[k].arg = <<OrElse(organization.pdfContactInfo, DefaultContactInfo)>>

SingleRead ==
    /\ organization' # organization =>
          /\ pc = "getOrg"
          /\ organization' = organizations[user.organizationId]
    /\ style' # style => pc = "newDoc"

C23_OneVersionOfBranding == [](BrandingFromHeldRecord) /\ [][SingleRead]_vars

\* The organization was rebranded after the lookup: the store holds the new
\* values, the finished document the old ones throughout.
C23_Witness ==
    /\ Finished
    /\ organizations[1].pdfCompanyName = "Garage Nieuw"
    /\ organizations[1].pdfPrimaryColor = "#aa0000"
    /\ organization.pdfCompanyName = "Auto Jansen"
    /\ doc.author = "Auto Jansen"
    /\ \E k \in PrimsWhere(IsTagline) : doc.prims[k].arg[1] = "Auto Jansen"
    /\ \E k \in PrimsWhere(IsContactLine) : doc.prims[k].arg = <<"Tel: 030-7654321">>

(***************************************************************************)
(* C24: the first gallery row-top is 480 without notes and 550 with notes, *)
(* the same for a one-line and a forty-line paragraph: the cursor passes   *)
(* the notes block by its three fixed steps only.                          *)
(***************************************************************************)
C24_GalleryTopIgnoresNotesLength ==
    LET slots == GallerySlots
    IN  /\ pc = "gallery" => y = IF HasNotes THEN 450 ELSE 380
        /\ (pc = "galleryLoop" /\ slots = <<>>) => startY = IF HasNotes THEN 550 ELSE 480
        /\ slots # <<>> => slots[1].y = IF HasNotes THEN 550 ELSE 480

C24_Witness ==
    /\ Finished
    /\ search.additionalRequirements = LongNotes
    /\ PrimsWhere(IsNotesParagraph) # {}
    /\ GallerySlots # <<>>
    /\ GallerySlots[1].y = 550

C24_ShortNotesSeen ==
    /\ Finished
    /\ search.additionalRequirements = "Trekhaak gewenst"
    /\ GallerySlots # <<>>
    /\ GallerySlots[1].y = 550

C24_NoNotesSeen ==
    /\ Finished
    /\ search.additionalRequirements = ""
    /\ GallerySlots # <<>>
    /\ GallerySlots[1].y = 480

(***************************************************************************)
(* C25: createPDF adds a page at most once in a render: the document has   *)
(* one page from its construction on and at most two at any time, and a    *)
(* page is only ever added to a one-page document.                         *)
(***************************************************************************)
AtMostTwoPages ==
    /\ doc.created => doc.pages \in {1, 2}
    /\ Len(PageChunks(buffers \o stream)) <= 2
    /\ \A k \in 1..Len(doc.prims) : doc.prims[k].page \in {1, 2}

OnePageBreak == (doc.created /\ doc'.pages # doc.pages) => (doc.pages = 1 /\ doc'.pages = 2)

C26_NoBoxOverFooter ==
    Completed("footer") =>
        LET slots == GallerySlots
            footerPage == doc.prims[Len(doc.prims)].page
        IN  \A k \in 1..Len(slots) :
                slots[k].page = footerPage => slots[k].y + 160 <= 750

(***************************************************************************)
(* Vocabulary of the route properties                                      *)
(***************************************************************************)
\* Path p lies below directory dir.
InsideDir(p, dir) == Len(p) > Len(dir) /\ SubSeq(p, 1, Len(dir)) = dir

(***************************************************************************)
(* C27: every path createPDF tests or reads for a search whose references  *)
(* were stored through the routes lies below the uploads directory.        *)
(***************************************************************************)
C27_PathsInsideUploads == \A p \in probed : InsideDir(p, UploadDir)

\* Both slots handled an image upload for the same search and answered 200.
BothUploaded ==
    /\ \A h \in Slots : handlers[h].route = "upload" /\ handlers[h].response = 200
    /\ handlers[1].id = handlers[2].id

\* The names in a list of references.
Names(images) == {images[k] : k \in 1..Len(images)}

(***************************************************************************)
(* C28: when two uploads for the same search have both answered with       *)
(* success, the stored images list holds the files of both uploads and the *)
(* images the search had before.                                           *)
(***************************************************************************)
C28_NoLostUpload ==
    BothUploaded =>
        LET id == handlers[1].id
        IN  /\ id \in DOMAIN searches
            /\ {UploadName(1), UploadName(2)} \subseteq Names(searches[id].images)
            /\ Names(InitialSearches[id].images) \subseteq Names(searches[id].images)

(***************************************************************************)
(* C29: the write of a PUT request leaves images, id and createdAt of the  *)
(* stored search as they were just before it, whatever keys the body has;  *)
(* the images of a stored search change only in a write of the upload      *)
(* route or of PATCH images.                                               *)
(***************************************************************************)
PutKeepsImages ==
    \A h \in Slots :
        (handlers[h].route = "put" /\ handlers[h].pc = "write" /\ handlers'[h].pc = "done"
         /\ handlers[h].id \in DOMAIN searches) =>
            LET id == handlers[h].id
            IN  /\ id \in DOMAIN searches'
                /\ searches'[id].images = searches[id].images
                /\ searches'[id].id = searches[id].id
                /\ searches'[id].createdAt = searches[id].createdAt

ImagesChangeByImageRoutes ==
    \A id \in (DOMAIN searches) \cap (DOMAIN searches') :
        searches'[id].images # searches[id].images =>
            \E h \in Slots :
                /\ handlers[h].pc = "write"
                /\ handlers'[h].pc = "done"
                /\ handlers[h].id = id
                /\ handlers[h].route \in {"upload", "images"}

C29_PutKeepsImages == [][PutKeepsImages /\ ImagesChangeByImageRoutes]_vars

(***************************************************************************)
(* C30: a handler answers 404 exactly when its lookup found no search, and *)
(* 403 exactly when the search it found belongs to another user; such a    *)
(* handler writes nothing and calls createPDF for nothing: every write is  *)
(* made and every createPDF call is made by a handler of the owner, and    *)
(* the step that answers 403 or 404 leaves the stored searches alone.      *)
(***************************************************************************)
PastLookup(r) == r.pc \notin {"idle", "lookup"}

OwnerOnly ==
    /\ \A h \in Slots :
          LET r == handlers[h]
          IN  /\ r.response = 404 <=> (PastLookup(r) /\ ~r.found)
              /\ r.response = 403 <=> (PastLookup(r) /\ r.found /\ r.snapshot.userId # r.user)
              /\ r.response \in {403, 404} => (~r.wrote /\ r.pc = "done")
              /\ r.wrote => (r.found /\ r.snapshot.userId = r.user)
              /\ r.pc \in {"select", "write", "render"} =>
                    (r.found /\ r.snapshot.userId = r.user)
    /\ \A k \in 1..Len(pdfCalls) : pdfCalls[k].search.userId = pdfCalls[k].user

RefusalChangesNothing ==
    /\ \A h \in Slots :
          (handlers[h].response = 0 /\ handlers'[h].response \in {403, 404}) =>
              (searches' = searches /\ pdfCalls' = pdfCalls /\ probed' = probed)
    /\ searches' # searches =>
          \E h \in Slots :
              /\ handlers[h].pc = "write"
              /\ handlers'[h].wrote
              /\ handlers[h].snapshot.userId = handlers[h].user

C30_OwnerServedSeen ==
    /\ handlers[1].route = "pdf"
    /\ handlers[1].user = 1
    /\ handlers[1].response = 200
    /\ Len(pdfCalls) = 1
    /\ handlers[2].route = "images"
    /\ handlers[2].user = 2
    /\ handlers[2].response = 403

====
